---- MODULE Spec2Model ----
(***************************************************************************)
(* Model of src/minimal_client/main.cpp: make87::sanitize_and_checksum,   *)
(* make87::resolve_endpoint_name and main.                                 *)
(*                                                                         *)
(* A std::string is a sequence of bytes 0..255.  A uint64_t is a tuple of  *)
(* four 16-bit limbs, least significant first, so that every product and   *)
(* sum of the checksum loop is computed with its 64-bit width.             *)
(***************************************************************************)
EXTENDS Integers, Sequences, FiniteSets

VARIABLES
    \* ---- sanitize_and_checksum(input)
    input,                 \* the argument, a byte sequence
    charSigned,            \* whether plain char is signed on this build
    spc,                   \* position in sanitize_and_checksum
    sanitized,             \* std::string sanitized
    idx,                   \* bytes consumed by the checksum loop
    sum,                   \* uint64_t sum
    wrapped,               \* some sum * 31 + b exceeded 2^64 - 1
    checksum,              \* std::string checksum
    max_sanitized_length,  \* size_t max_sanitized_length
    output,                \* the returned string
    \* ---- resolve_endpoint_name(search_endpoint, default_value)
    env_value,             \* the ENDPOINTS environment variable
    search_endpoint,       \* the name searched for
    default_value,         \* the fallback
    rpc,                   \* position in resolve_endpoint_name
    res,                   \* outcome of the call
    \* ---- main
    mpc,                   \* position in main
    ok,                    \* rclcpp::ok()
    serviceUp,             \* the service is currently available
    serviceName,           \* name the client was created with
    waits,                 \* wait_for_service calls that returned false
    available,             \* the last wait_for_service call returned true
    request,               \* the requests sent
    pending,               \* the client holds a pending request
    response,              \* the responses delivered to the client
    spin_result,           \* what spin_until_future_complete returned
    exit_status,           \* main's return value, -1 while it runs
    stoppedWhileWaiting    \* rclcpp::ok() became false while main was in the wait loop

sanVars == <<input, charSigned, spc, sanitized, idx, sum, wrapped, checksum,
             max_sanitized_length, output>>
resVars == <<env_value, search_endpoint, default_value, rpc, res>>
mainVars == <<mpc, ok, serviceUp, serviceName, waits, available, request,
              pending, response, spin_result, exit_status, stoppedWhileWaiting>>
vars == <<sanVars, resVars, mainVars>>

(***************************************************************************)
(* Program constants.                                                      *)
(***************************************************************************)
prefix == <<114, 111, 115, 50, 95>>        \* "ros2_"
max_total_length == 256
Multiplier == 31
Modulus == 1000000007

(***************************************************************************)
(* Bounds of the model.                                                    *)
(***************************************************************************)
MaxShortLen == 2     \* every string over Alphabet up to this length is an input
Slack == 2           \* long inputs reach from Slack below the smallest budget
                     \* to Slack above the total length
MaxEndpoints == 2    \* longest endpoints array
MaxWaits == 3        \* wait_for_service calls that may time out

(***************************************************************************)
(* Bytes, chars and unsigned 64-bit arithmetic.                            *)
(***************************************************************************)
Limb == 2^16

\* The value of `char c` holding byte b.
CharValue(b, signed) == IF signed /\ b >= 128 THEN b - 256 ELSE b

\* Conversion of a char to unsigned char, and the byte a char is stored as.
UChar(c) == c % 256

U64Zero == <<0, 0, 0, 0>>

\* x * m + b for a uint64_t x and small m, b: the four low limbs and the carry
\* out of bit 63 (nonzero exactly when the true value exceeds 2^64 - 1).
U64MulAdd(x, m, b) ==
    LET t0 == x[1] * m + b
        t1 == x[2] * m + (t0 \div Limb)
        t2 == x[3] * m + (t1 \div Limb)
        t3 == x[4] * m + (t2 \div Limb)
    IN  [v |-> <<t0 % Limb, t1 % Limb, t2 % Limb, t3 % Limb>>,
         carry |-> t3 \div Limb]

RECURSIVE TimesPow2Mod(_, _, _)
\* (a * 2^k) mod q for a < q < 2^30.
TimesPow2Mod(a, k, q) ==
    IF k = 0 THEN a ELSE TimesPow2Mod((2 * a) % q, k - 1, q)

\* y % p for a uint64_t y and p < 2^30, as a uint64_t.
U64Mod(y, p) ==
    LET r4 == y[4] % p
        r3 == (TimesPow2Mod(r4, 16, p) + y[3]) % p
        r2 == (TimesPow2Mod(r3, 16, p) + y[2]) % p
        r1 == (TimesPow2Mod(r2, 16, p) + y[1]) % p
    IN  <<r1 % Limb, r1 \div Limb, 0, 0>>

\* z / 10 and z % 10 for a uint64_t z.
U64DivMod10(z) ==
    LET c4 == z[4]
        c3 == (c4 % 10) * Limb + z[3]
        c2 == (c3 % 10) * Limb + z[2]
        c1 == (c2 % 10) * Limb + z[1]
    IN  [q |-> <<c1 \div 10, c2 \div 10, c3 \div 10, c4 \div 10>>,
         r |-> c1 % 10]

RECURSIVE U64Digits(_)
\* The decimal digits of w > 0 as characters, most significant first.
U64Digits(w) ==
    IF w = U64Zero THEN <<>>
    ELSE LET d == U64DivMod10(w) IN Append(U64Digits(d.q), 48 + d.r)

\* std::to_string(uint64_t).
ToString(u) == IF u = U64Zero THEN <<48>> ELSE U64Digits(u)

(***************************************************************************)
(* sanitize_and_checksum.                                                  *)
(***************************************************************************)
\* Variant: one range 'A'..'z' for the letters, which lets [ \ ] ^ ` through.
IsAllowedOneLetterRange(c) ==
    \/ (c >= 65 /\ c <= 122)
    \/ (c >= 48 /\ c <= 57)
    \/ c = 95

\* The test of lines 37-40 on a char.
IsAllowed(c) ==
    \/ (c >= 97 /\ c <= 122)
    \/ (c >= 65 /\ c <= 90)
    \/ (c >= 48 /\ c <= 57)
    \/ c = 95

\* The char appended for input char c (lines 37-44).
SanitizeChar(c) == IF IsAllowed(c) THEN c ELSE 95

\* The sanitize loop, lines 34-45.
Sanitize(s, signed) ==
    [i \in 1..Len(s) |-> UChar(SanitizeChar(CharValue(s[i], signed)))]

\* Variant: the checksum loop reads the sanitized string.
ChecksumByteSanitized(raw, signed) == UChar(SanitizeChar(CharValue(raw, signed)))

\* The unsigned char b the checksum loop reads at a byte of the input (line 49).
ChecksumByte(raw, signed) == UChar(CharValue(raw, signed))

\* sum * 31 + b before the reduction (line 50).
StepProduct(acc, ub) == U64MulAdd(acc, Multiplier, ub)

\* Variant: the step without the reduction modulo 1000000007.
ChecksumStepNoReduce(old, byte) == StepProduct(old, byte).v

\* One iteration of the checksum loop (line 50).
ChecksumStepValue(old, byte) == U64Mod(StepProduct(old, byte).v, Modulus)

\* a - b in size_t: the difference, or (when a < b) the wrapped value
\* 2^64 - v, recorded by neg.
SizeSub(a, b) == [neg |-> a < b, v |-> IF a < b THEN b - a ELSE a - b]

\* Variant: the budget forgets the prefix.
MaxSanitizedLengthNoPrefix(cs) == SizeSub(max_total_length, Len(cs))

\* max_total_length - prefix_length - checksum_length (lines 55-58).
MaxSanitizedLength(cs) ==
    LET d1 == SizeSub(max_total_length, Len(prefix))
    IN  IF d1.neg THEN [neg |-> TRUE, v |-> d1.v + Len(cs)]
        ELSE SizeSub(d1.v, Len(cs))

\* sanitized.size() > max_sanitized_length (line 61); a wrapped budget is
\* larger than any string.
ExceedsBudget(n, m) == ~m.neg /\ n > m.v

\* Variant: the truncation keeps the last bytes instead of the first.
TruncateKeepTail(san, m) ==
    IF ExceedsBudget(Len(san), m) THEN SubSeq(san, Len(san) - m.v + 1, Len(san)) ELSE san

\* Lines 61-63.
Truncate(san, m) ==
    IF ExceedsBudget(Len(san), m) THEN SubSeq(san, 1, m.v) ELSE san

\* Line 66.
Concat(san, cs) == prefix \o san \o cs

(***************************************************************************)
(* Inputs of sanitize_and_checksum.                                        *)
(***************************************************************************)
\* Bytes on both sides of every range boundary of lines 37-40, NUL, and bytes
\* above 127.
Alphabet == {0, 46, 47, 48, 57, 58, 64, 65, 90, 91, 95, 96, 97, 122, 123, 128, 255}

ShortInputs == UNION {[1..n -> Alphabet] : n \in 0..MaxShortLen}

\* seed repeated up to length n.
Fill(seed, n) == [i \in 1..n |-> seed[((i - 1) % Len(seed)) + 1]]

Seeds == {<<97>>, <<46, 65>>, <<200, 95, 48>>}

\* Lengths around every possible budget (241..250) and around 256.
LongLens == (max_total_length - 16 - Slack)..(max_total_length + Slack)

LongInputs == {Fill(seed, n) : seed \in Seeds, n \in LongLens}

\* n bytes, 'a' repeated and then tail.
Crafted(n, tail) == Fill(<<97>>, n - Len(tail)) \o tail

\* Inputs whose checksum has ten digits (1000000006, 1000000000) or few
\* (7, 0, 99, 12345), at lengths on both sides of the resulting budget.
CraftedInputs ==
    { Crafted(7,   <<49, 51, 54, 77, 70, 60, 73>>),    \* 1000000006
      Crafted(241, <<48, 76, 70, 57, 64, 50, 62>>),    \* 1000000006
      Crafted(242, <<48, 60, 77, 58, 72, 48, 48>>),    \* 1000000006
      Crafted(243, <<48, 60, 78, 78, 56, 73, 54>>),    \* 1000000000
      Crafted(250, <<48, 78, 74, 69, 62, 71, 50>>),    \* 7
      Crafted(251, <<48, 57, 62, 69, 49, 75, 72>>),    \* 7
      Crafted(251, <<48, 57, 62, 69, 49, 75, 65>>),    \* 0
      Crafted(249, <<48, 50, 55, 76, 59, 61, 73>>),    \* 99
      Crafted(250, <<48, 78, 74, 69, 75, 66, 50>>) }   \* 12345

Inputs == ShortInputs \cup LongInputs \cup CraftedInputs

NoBudget == [neg |-> FALSE, v |-> 0]

(***************************************************************************)
(* sanitize_and_checksum as a state machine.                               *)
(***************************************************************************)
SanStart ==
    /\ input \in Inputs
    /\ charSigned \in BOOLEAN
    /\ spc = "sanitize"
    /\ sanitized = <<>>
    /\ idx = 0
    /\ sum = U64Zero
    /\ wrapped = FALSE
    /\ checksum = <<>>
    /\ max_sanitized_length = NoBudget
    /\ output = <<>>

\* Lines 33-45: the sanitize loop.
SanitizeLoop ==
    /\ spc = "sanitize"
    /\ sanitized' = Sanitize(input, charSigned)
    /\ spc' = "checksum"
    /\ UNCHANGED <<input, charSigned, idx, sum, wrapped, checksum, max_sanitized_length, output>>
    /\ UNCHANGED <<resVars, mainVars>>

\* Lines 49-51: one iteration of the checksum loop.
ChecksumStep ==
    /\ spc = "checksum"
    /\ idx < Len(input)
    /\ LET b == ChecksumByte(input[idx + 1], charSigned)
       IN  /\ wrapped' = (wrapped \/ StepProduct(sum, b).carry > 0)
           /\ sum' = ChecksumStepValue(sum, b)
    /\ idx' = idx + 1
    /\ UNCHANGED <<input, charSigned, spc, sanitized, checksum, max_sanitized_length, output>>
    /\ UNCHANGED <<resVars, mainVars>>

\* Line 52: the loop is over, std::to_string(sum).
ChecksumToString ==
    /\ spc = "checksum"
    /\ idx = Len(input)
    /\ checksum' = ToString(sum)
    /\ spc' = "truncate"
    /\ UNCHANGED <<input, charSigned, sanitized, idx, sum, wrapped, max_sanitized_length, output>>
    /\ UNCHANGED <<resVars, mainVars>>

\* Lines 54-66: the budget, the truncation and the returned string.
TruncateAndReturn ==
    /\ spc = "truncate"
    /\ max_sanitized_length' = MaxSanitizedLength(checksum)
    /\ sanitized' = Truncate(sanitized, max_sanitized_length')
    /\ output' = Concat(sanitized', checksum)
    /\ spc' = "done"
    /\ UNCHANGED <<input, charSigned, idx, sum, wrapped, checksum>>
    /\ UNCHANGED <<resVars, mainVars>>

(***************************************************************************)
(* JSON values (nlohmann::json) and the ENDPOINTS environment variable.    *)
(* A name is a string; an endpoint key is a byte sequence, since it is the *)
(* argument of sanitize_and_checksum.                                      *)
(***************************************************************************)
JNull == [t |-> "null"]
JNum(n) == [t |-> "number", n |-> n]
JStr(s) == [t |-> "string", s |-> s]
JArr(a) == [t |-> "array", a |-> a]
JObj(o) == [t |-> "object", o |-> o]

\* json::contains(key): false for every value that is not an object.
Contains(j, key) == j.t = "object" /\ key \in DOMAIN j.o

\* json::operator[](key) on an object that holds key.
At(j, key) == j.o[key]

IsArray(j) == j.t = "array"
IsString(j) == j.t = "string"

\* json == std::string: the string is converted to a json string, and two json
\* values are equal when their types and their values are.
JsonEqString(j, str) == j.t = "string" /\ j.s = str

\* std::getenv("ENDPOINTS"): unset, or a text.  A text either is no JSON
\* document (json::parse throws parse_error) or parses to doc.
EnvUnset == [set |-> FALSE, wf |-> FALSE, doc |-> JNull]
EnvMalformed == [set |-> TRUE, wf |-> FALSE, doc |-> JNull]
EnvText(doc) == [set |-> TRUE, wf |-> TRUE, doc |-> doc]

\* json::parse(env_value), line 77.
Parse(e) == IF e.wf THEN [thrown |-> "none", doc |-> e.doc]
            ELSE [thrown |-> "parse_error", doc |-> JNull]

\* The exceptions the handler of line 88 catches: nlohmann::json::exception
\* and the classes derived from it.
JsonExceptions == {"parse_error", "type_error", "out_of_range", "invalid_iterator", "other_error"}

\* Variant: a handler for type_error alone.
CaughtTypeErrorOnly(what) == what = "type_error"

Caught(what) == what \in JsonExceptions

\* The test of lines 80-81 on one element of the array.
ElementMatches(e, name) ==
    /\ Contains(e, "endpoint_name") /\ JsonEqString(At(e, "endpoint_name"), name)
    /\ Contains(e, "endpoint_key") /\ IsString(At(e, "endpoint_key"))

RECURSIVE ScanLast(_, _, _)
\* Variant: the last matching element wins.
ScanLast(arr, i, name) ==
    IF i > Len(arr) THEN 0
    ELSE LET rest == ScanLast(arr, i + 1, name)
         IN  IF rest > 0 THEN rest
             ELSE IF ElementMatches(arr[i], name) THEN i ELSE 0

RECURSIVE ScanFirstNameOnly(_, _, _)
\* Variant: the search_endpoint ends at the first element of the searched name, whether
\* or not its endpoint_key is a string.
ScanFirstNameOnly(arr, i, name) ==
    IF i > Len(arr) THEN 0
    ELSE IF Contains(arr[i], "endpoint_name")
            /\ JsonEqString(At(arr[i], "endpoint_name"), name)
    THEN IF ElementMatches(arr[i], name) THEN i ELSE 0
    ELSE ScanFirstNameOnly(arr, i + 1, name)

RECURSIVE Scan(_, _, _)
\* The loop of lines 79-85 from element i on: the index of the element whose
\* key is returned, or 0 when the loop ends without returning.
Scan(arr, i, name) ==
    IF i > Len(arr) THEN 0
    ELSE IF ElementMatches(arr[i], name) THEN i
    ELSE Scan(arr, i + 1, name)

\* Lines 77-81: json::parse and the search_endpoint.  The outcome is an exception, the
\* index of the element whose endpoint_key line 82 passes on, or 0 when
\* control reaches line 87.
Lookup(e, name) ==
    LET parsed == Parse(e)
    IN  IF parsed.thrown # "none" THEN [thrown |-> parsed.thrown, index |-> 0]
        ELSE IF Contains(parsed.doc, "endpoints") /\ IsArray(At(parsed.doc, "endpoints"))
        THEN [thrown |-> "none", index |-> Scan(At(parsed.doc, "endpoints").a, 1, name)]
        ELSE [thrown |-> "none", index |-> 0]

\* endpoint["endpoint_key"].get<std::string>() of element i (line 82).
KeyOf(e, i) == At(At(e.doc, "endpoints").a[i], "endpoint_key").s

\* The outcome of a call: the line of the return statement taken, the returned
\* string, the diagnostics written to std::cerr, whether json::parse was
\* called, the index of the element used, and whether an exception left the
\* function.
NoResult == [line |-> 0, value |-> <<>>, diags |-> <<>>, parsed |-> FALSE,
             index |-> 0, propagated |-> FALSE]

\* Lines 71-74: ENDPOINTS is not set.
UnsetResult(default) ==
    [NoResult EXCEPT !.line = 73, !.value = default, !.diags = <<"unset">>]

\* Variant: the default is returned without the diagnostic of line 87.
NotFoundSilent(default) ==
    [NoResult EXCEPT !.line = 92, !.value = default, !.parsed = TRUE]

\* Lines 87 and 92: no element matched.
NotFoundResult(default) ==
    [NoResult EXCEPT !.line = 92, !.value = default, !.diags = <<"not_found">>,
                     !.parsed = TRUE]

\* Lines 88-92: an exception thrown in the try block; one the handler does
\* not catch leaves the function.
ThrownResult(what, default) ==
    IF Caught(what)
    THEN [NoResult EXCEPT !.line = 92, !.value = default, !.diags = <<"parse_error">>,
                          !.parsed = TRUE]
    ELSE [NoResult EXCEPT !.parsed = TRUE, !.propagated = TRUE]

(***************************************************************************)
(* Inputs of resolve_endpoint_name.                                        *)
(***************************************************************************)
RequesterEndpoint == "REQUESTER_ENDPOINT"
AddTwoInts == <<97, 100, 100, 95, 116, 119, 111, 95, 105, 110, 116, 115>>  \* "add_two_ints"
MyKey == <<109, 121, 32, 107, 101, 121, 33>>                               \* "my key!"
Ros2Zero == <<114, 111, 115, 50, 95, 48>>                                  \* "ros2_0"

SearchNames == {RequesterEndpoint, "requester_endpoint"}
Defaults == {AddTwoInts, Ros2Zero}

NameValues == {JStr(RequesterEndpoint), JStr("requester_endpoint"), JNum(7)}
KeyValues == {JStr(<<>>), JStr(MyKey), JNum(5)}

\* Elements of an endpoints array: objects with or without each of the two
\* fields, one with a further field, and values that are not objects.
Elements ==
    {JObj([endpoint_name |-> n, endpoint_key |-> k]) : n \in NameValues, k \in KeyValues}
    \cup {JObj([endpoint_name |-> n]) : n \in NameValues}
    \cup {JObj([endpoint_key |-> k]) : k \in KeyValues}
    \cup {JObj(<<>>),
          JObj([endpoint_name |-> JStr(RequesterEndpoint), endpoint_key |-> JStr(MyKey),
                protocol |-> JStr("ros2")]),
          JNum(1), JStr(RequesterEndpoint)}

Arrays == UNION {[1..n -> Elements] : n \in 0..MaxEndpoints}

QualifyingObject == JObj([endpoint_name |-> JStr(RequesterEndpoint), endpoint_key |-> JStr(MyKey)])

\* Documents whose endpoints field is an array.
ArrayDocs == {JObj([endpoints |-> JArr(a)]) : a \in Arrays}

\* Documents without an endpoints array: objects without the field or with a
\* field of another type, and documents that are not objects.
OtherDocs ==
    {JObj(<<>>), JObj([endpoint |-> JArr(<<QualifyingObject>>)]),
     JObj([endpoints |-> JNull]), JObj([endpoints |-> JStr(RequesterEndpoint)]),
     JObj([endpoints |-> QualifyingObject]),
     JArr(<<QualifyingObject>>), JNum(3), JStr("endpoints"), JNull}

Envs == {EnvUnset, EnvMalformed} \cup {EnvText(d) : d \in ArrayDocs \cup OtherDocs}

(***************************************************************************)
(* resolve_endpoint_name as a state machine: one call.                     *)
(***************************************************************************)
ResStart ==
    /\ env_value \in Envs
    /\ search_endpoint \in SearchNames
    /\ default_value \in Defaults
    /\ rpc = "call"
    /\ res = NoResult

\* Lines 69-81: up to a return of the default value, or to the call of
\* sanitize_and_checksum on the endpoint_key of the first matching element.
ResolveCall ==
    /\ rpc = "call"
    /\ IF ~env_value.set
       THEN /\ res' = UnsetResult(default_value)
            /\ rpc' = "done"
            /\ UNCHANGED sanVars
       ELSE LET found == Lookup(env_value, search_endpoint)
            IN  IF found.thrown # "none"
                THEN /\ res' = ThrownResult(found.thrown, default_value)
                     /\ rpc' = "done"
                     /\ UNCHANGED sanVars
                ELSE IF found.index = 0
                THEN /\ res' = NotFoundResult(default_value)
                     /\ rpc' = "done"
                     /\ UNCHANGED sanVars
                ELSE /\ res' = [NoResult EXCEPT !.parsed = TRUE, !.index = found.index]
                     /\ rpc' = "sanitize"
                     /\ input' = KeyOf(env_value, found.index)
                     /\ spc' = "sanitize"
                     /\ UNCHANGED <<charSigned, sanitized, idx, sum, wrapped,
                                    checksum, max_sanitized_length, output>>
    /\ UNCHANGED <<env_value, search_endpoint, default_value>>
    /\ UNCHANGED mainVars

\* Line 82: sanitize_and_checksum has returned, and its result is returned.
ResolveReturn ==
    /\ rpc = "sanitize"
    /\ spc = "done"
    /\ res' = [res EXCEPT !.line = 82, !.value = output]
    /\ rpc' = "done"
    /\ UNCHANGED <<env_value, search_endpoint, default_value>>
    /\ UNCHANGED <<sanVars, mainVars>>

(***************************************************************************)
(* main.                                                                   *)
(***************************************************************************)
MainEnvs ==
    {EnvUnset, EnvMalformed, EnvText(JObj([endpoints |-> JArr(<<>>)])),
     EnvText(JObj([endpoints |-> JArr(<<QualifyingObject>>)])),
     EnvText(JObj([endpoints |->
         JArr(<<JObj([endpoint_name |-> JStr(RequesterEndpoint), endpoint_key |-> JNum(5)]),
                JObj([endpoint_name |-> JStr(RequesterEndpoint), endpoint_key |-> JStr(<<>>)])>>)]))}

MainStart ==
    /\ mpc = "create"
    /\ ok = TRUE                 \* rclcpp::init, line 99
    /\ serviceUp \in BOOLEAN
    /\ serviceName = <<>>
    /\ waits = 0
    /\ available = FALSE
    /\ request = <<>>
    /\ pending = FALSE
    /\ response = <<>>
    /\ spin_result = "none"
    /\ exit_status = -1
    /\ stoppedWhileWaiting = FALSE

\* Lines 100-101: the node, and the call
\* resolve_endpoint_name("REQUESTER_ENDPOINT", "add_two_ints").
CreateNode ==
    /\ mpc = "create"
    /\ rpc' = "call"
    /\ mpc' = "resolve"
    /\ UNCHANGED <<ok, serviceUp, serviceName, waits, available, request, pending,
                   response, spin_result, exit_status, stoppedWhileWaiting>>
    /\ UNCHANGED <<env_value, search_endpoint, default_value, res>>
    /\ UNCHANGED sanVars

\* Line 101: create_client with the resolved name.
CreateClient ==
    /\ mpc = "resolve"
    /\ rpc = "done"
    /\ ~res.propagated
    /\ serviceName' = res.value
    /\ mpc' = "wait"
    /\ UNCHANGED <<ok, serviceUp, waits, available, request, pending, response,
                   spin_result, exit_status, stoppedWhileWaiting>>
    /\ UNCHANGED <<sanVars, resVars>>

\* Line 102: one call of wait_for_service returns.  mpc = "wait" is main
\* blocked in the call.  The call returns true when the service is available
\* and false otherwise (after its timeout, or at once when the context is shut
\* down); rclcpp::ok() changes asynchronously and is no part of what a call
\* that found the service reports.
WaitForService ==
    /\ mpc = "wait"
    /\ IF serviceUp
       THEN /\ available' = TRUE
            /\ mpc' = "send"
            /\ waits' = waits
       ELSE /\ waits < MaxWaits
            /\ available' = FALSE
            /\ mpc' = "check"
            /\ waits' = waits + 1
    /\ UNCHANGED <<ok, serviceUp, serviceName, request, pending, response,
                   spin_result, exit_status, stoppedWhileWaiting>>
    /\ UNCHANGED <<sanVars, resVars>>

\* Variant: the test of line 103 inverted.
CheckOkInverted ==
    /\ mpc = "check"
    /\ IF ok
       THEN /\ exit_status' = 1
            /\ mpc' = "exit"
       ELSE /\ exit_status' = exit_status
            /\ mpc' = "wait"
    /\ UNCHANGED <<ok, serviceUp, serviceName, waits, available, request, pending,
                   response, spin_result, stoppedWhileWaiting>>
    /\ UNCHANGED <<sanVars, resVars>>

\* Lines 103-107: the body of the wait loop.
CheckOk ==
    /\ mpc = "check"
    /\ IF ~ok
       THEN /\ exit_status' = 1
            /\ mpc' = "exit"
       ELSE /\ exit_status' = exit_status
            /\ mpc' = "wait"
    /\ UNCHANGED <<ok, serviceUp, serviceName, waits, available, request, pending,
                   response, spin_result, stoppedWhileWaiting>>
    /\ UNCHANGED <<sanVars, resVars>>

\* Lines 109-112: the request and async_send_request.
SendRequest ==
    /\ mpc = "send"
    /\ request' = <<[a |-> 41, b |-> 1]>>
    /\ pending' = TRUE
    /\ mpc' = "spin"
    /\ UNCHANGED <<ok, serviceUp, serviceName, waits, available, response,
                   spin_result, exit_status, stoppedWhileWaiting>>
    /\ UNCHANGED <<sanVars, resVars>>

\* Line 113: spin_until_future_complete returns SUCCESS once the response has
\* arrived, which completes the pending request.
SpinSuccess ==
    /\ mpc = "spin"
    /\ response # <<>>
    /\ spin_result' = "SUCCESS"
    /\ pending' = FALSE
    /\ mpc' = "spun"
    /\ UNCHANGED <<ok, serviceUp, serviceName, waits, available, request, response,
                   exit_status, stoppedWhileWaiting>>
    /\ UNCHANGED <<sanVars, resVars>>

\* Line 113: spin_until_future_complete returns INTERRUPTED when the context
\* is shut down before the response arrives.
SpinInterrupted ==
    /\ mpc = "spin"
    /\ ~ok
    /\ response = <<>>
    /\ spin_result' = "INTERRUPTED"
    /\ mpc' = "spun"
    /\ UNCHANGED <<ok, serviceUp, serviceName, waits, available, request, pending,
                   response, exit_status, stoppedWhileWaiting>>
    /\ UNCHANGED <<sanVars, resVars>>

\* Lines 113-119: the call failed.
CallFailed ==
    /\ mpc = "spun"
    /\ spin_result # "SUCCESS"
    /\ pending' = FALSE          \* remove_pending_request
    /\ exit_status' = 1
    /\ mpc' = "exit"
    /\ UNCHANGED <<ok, serviceUp, serviceName, waits, available, request, response,
                   spin_result, stoppedWhileWaiting>>
    /\ UNCHANGED <<sanVars, resVars>>

\* Lines 120-125: the result is logged, rclcpp::shutdown, return 0.
CallSucceeded ==
    /\ mpc = "spun"
    /\ spin_result = "SUCCESS"
    /\ ok' = FALSE
    /\ exit_status' = 0
    /\ mpc' = "exit"
    /\ UNCHANGED <<serviceUp, serviceName, waits, available, request, pending,
                   response, spin_result, stoppedWhileWaiting>>
    /\ UNCHANGED <<sanVars, resVars>>

\* The environment of main: the service appears or goes away, the service
\* answers a pending request, and the context is shut down (SIGINT), which
\* may happen at any point of main.
ServiceAppears ==
    /\ mpc # "exit"
    /\ ~serviceUp
    /\ serviceUp' = TRUE
    /\ UNCHANGED <<mpc, ok, serviceName, waits, available, request, pending,
                   response, spin_result, exit_status, stoppedWhileWaiting>>
    /\ UNCHANGED <<sanVars, resVars>>

ServiceDisappears ==
    /\ mpc # "exit"
    /\ serviceUp
    /\ serviceUp' = FALSE
    /\ UNCHANGED <<mpc, ok, serviceName, waits, available, request, pending,
                   response, spin_result, exit_status, stoppedWhileWaiting>>
    /\ UNCHANGED <<sanVars, resVars>>

ServiceResponds ==
    /\ mpc = "spin"
    /\ serviceUp
    /\ pending
    /\ response = <<>>
    /\ response' = <<[sum |-> request[1].a + request[1].b]>>
    /\ UNCHANGED <<mpc, ok, serviceUp, serviceName, waits, available, request,
                   pending, spin_result, exit_status, stoppedWhileWaiting>>
    /\ UNCHANGED <<sanVars, resVars>>

Shutdown ==
    /\ mpc # "exit"
    /\ ok
    /\ ok' = FALSE
    /\ stoppedWhileWaiting' = (mpc \in {"wait", "check"})
    /\ UNCHANGED <<mpc, serviceUp, serviceName, waits, available, request, pending,
                   response, spin_result, exit_status>>
    /\ UNCHANGED <<sanVars, resVars>>

(***************************************************************************)
(* Specifications.  Each runs one part of the program; the variables of    *)
(* the other parts keep their initial values.                              *)
(***************************************************************************)
SanIdle ==
    /\ input = <<>>
    /\ spc = "idle"
    /\ sanitized = <<>>
    /\ idx = 0
    /\ sum = U64Zero
    /\ wrapped = FALSE
    /\ checksum = <<>>
    /\ max_sanitized_length = NoBudget
    /\ output = <<>>

ResIdle ==
    /\ env_value = EnvUnset
    /\ search_endpoint = RequesterEndpoint
    /\ default_value = AddTwoInts
    /\ rpc = "idle"
    /\ res = NoResult

MainIdle ==
    /\ mpc = "idle"
    /\ ok = TRUE
    /\ serviceUp = FALSE
    /\ serviceName = <<>>
    /\ waits = 0
    /\ available = FALSE
    /\ request = <<>>
    /\ pending = FALSE
    /\ response = <<>>
    /\ spin_result = "none"
    /\ exit_status = -1
    /\ stoppedWhileWaiting = FALSE

\* sanitize_and_checksum on every input of Inputs.
SanInit == SanStart /\ ResIdle /\ MainIdle

SanNext ==
    \/ SanitizeLoop
    \/ ChecksumStep
    \/ ChecksumToString
    \/ TruncateAndReturn

SpecSan == SanInit /\ [][SanNext]_vars

\* resolve_endpoint_name on every environment of Envs.
ResInit == SanIdle /\ charSigned \in BOOLEAN /\ ResStart /\ MainIdle

ResNext ==
    \/ ResolveCall
    \/ SanitizeLoop
    \/ ChecksumStep
    \/ ChecksumToString
    \/ TruncateAndReturn
    \/ ResolveReturn

SpecRes == ResInit /\ [][ResNext]_vars

\* main, with its environment.
MainInit ==
    /\ SanIdle /\ charSigned \in BOOLEAN
    /\ env_value \in MainEnvs /\ search_endpoint = RequesterEndpoint /\ default_value = AddTwoInts
    /\ rpc = "idle" /\ res = NoResult
    /\ MainStart

MainNext ==
    \/ CreateNode
    \/ ResolveCall
    \/ SanitizeLoop
    \/ ChecksumStep
    \/ ChecksumToString
    \/ TruncateAndReturn
    \/ ResolveReturn
    \/ CreateClient
    \/ WaitForService
    \/ CheckOk
    \/ SendRequest
    \/ SpinSuccess
    \/ SpinInterrupted
    \/ CallFailed
    \/ CallSucceeded
    \/ ServiceAppears
    \/ ServiceDisappears
    \/ ServiceResponds
    \/ Shutdown

SpecMain == MainInit /\ [][MainNext]_vars

(***************************************************************************)
(* Definitions the properties are stated with.  They restate the contract  *)
(* on bytes and integers, and use none of the operators above.             *)
(***************************************************************************)
Ros2Prefix == <<114, 111, 115, 50, 95>>      \* "ros2_"

\* [A-Za-z0-9_] as a set of bytes.
SafeBytes == (97..122) \cup (65..90) \cup (48..57) \cup {95}

\* The sanitized form of s: s with every byte outside [A-Za-z0-9_] replaced
\* by '_'.
SanitizedForm(s) == [i \in 1..Len(s) |-> IF s[i] \in SafeBytes THEN s[i] ELSE 95]

\* The integer a uint64_t below 2^31 holds.
SmallValue(v) == v[2] * (2^16) + v[1]

IsSmall(v) == v[4] = 0 /\ v[3] = 0 /\ v[2] < 2^15

Twice(h) == (2 * h) % 1000000007

\* (h * 31 + b) mod 1000000007 for 0 <= h < 1000000007, as 32 h - h + b.
HornerStep(h, b) ==
    (Twice(Twice(Twice(Twice(Twice(h))))) + (1000000007 - h) + b) % 1000000007

RECURSIVE Decimal(_)
\* The decimal rendering of a natural number, without leading zeros.
Decimal(k) ==
    IF k < 10 THEN <<48 + k>> ELSE Append(Decimal(k \div 10), 48 + (k % 10))

\* The endpoints array of the environment, when ENDPOINTS parses to a
\* document that has one.
HasEndpointsArray ==
    /\ env_value.set /\ env_value.wf /\ env_value.doc.t = "object"
    /\ "endpoints" \in DOMAIN env_value.doc.o
    /\ env_value.doc.o.endpoints.t = "array"

EndpointsArray == env_value.doc.o.endpoints.a

\* e is an object whose endpoint_name is the string name.
Named(e, name) ==
    /\ e.t = "object" /\ "endpoint_name" \in DOMAIN e.o
    /\ e.o.endpoint_name.t = "string" /\ e.o.endpoint_name.s = name

\* e has a string-valued endpoint_key.
HasStringKey(e) ==
    /\ e.t = "object" /\ "endpoint_key" \in DOMAIN e.o
    /\ e.o.endpoint_key.t = "string"

Qualifies(e, name) == Named(e, name) /\ HasStringKey(e)

NamedIndexes == {i \in 1..Len(EndpointsArray) : Named(EndpointsArray[i], search_endpoint)}

QualifyingIndexes == {i \in 1..Len(EndpointsArray) : Qualifies(EndpointsArray[i], search_endpoint)}

Lowest(S) == CHOOSE i \in S : \A j \in S : i <= j

\* The call can succeed: some element of an endpoints array qualifies.
Resolvable == HasEndpointsArray /\ QualifyingIndexes # {}

IsByteString(v) == DOMAIN v = 1..Len(v) /\ \A i \in 1..Len(v) : v[i] \in 0..255

(***************************************************************************)
(* Properties.                                                             *)
(***************************************************************************)

\* C1: for every input, the string sanitize_and_checksum returns has length at
\* most 256 and at least len("ros2_") + len(checksum).
C1_LengthBound ==
    spc = "done" =>
        /\ Len(output) <= 256
        /\ Len(output) >= 5 + Len(checksum)

\* An input longer than 256 bytes whose output has exactly 256.
C1_Witness == spc = "done" /\ Len(input) > 256 /\ Len(output) = 256

\* C5: the sanitized segment holds only bytes of [A-Za-z0-9_]; before the
\* truncation it is as long as the input, position i holding input[i] when
\* that is in [A-Za-z0-9_] and '_' otherwise, bytes above 127 included.
C5_SanitizedSegment ==
    /\ spc \in {"checksum", "truncate"} => sanitized = SanitizedForm(input)
    /\ spc = "done" =>
          /\ \A i \in 1..Len(sanitized) : sanitized[i] \in SafeBytes
          /\ output = Ros2Prefix \o sanitized \o checksum

\* A byte above 127 read through a signed char and replaced by '_'.
C5_Witness ==
    /\ spc = "done" /\ charSigned
    /\ \E i \in 1..Len(input) : input[i] >= 128 /\ i <= Len(sanitized) /\ sanitized[i] = 95
    /\ \E i \in 1..Len(input) : input[i] \in SafeBytes /\ sanitized[i] = input[i]

\* C6: the checksum is the decimal rendering, without leading zeros, of the
\* Horner hash of the original bytes of the input taken as 0..255: h starts at
\* 0, each byte in order gives h := (h * 31 + b) mod 1000000007, every byte is
\* consumed, and the empty input gives "ros2_0".
C6_ChecksumIsHornerHash ==
    /\ [](idx = 0 => sum = <<0, 0, 0, 0>>)
    /\ [][idx' # idx =>
            /\ idx' = idx + 1
            /\ IsSmall(sum) /\ IsSmall(sum')
            /\ SmallValue(sum') = HornerStep(SmallValue(sum), input[idx'])]_vars
    /\ [](spc \in {"truncate", "done"} =>
            /\ idx = Len(input)
            /\ IsSmall(sum)
            /\ checksum = Decimal(SmallValue(sum)))
    /\ [](spc = "done" =>
            /\ SubSeq(output, Len(output) - Len(checksum) + 1, Len(output)) = checksum
            /\ (input = <<>> => output = <<114, 111, 115, 50, 95, 48>>))

\* The bytes 255, 255 on a build with signed char: 255 * 31 + 255 = 8160.
C6_Witness ==
    /\ spc = "done" /\ charSigned /\ input = <<255, 255>>
    /\ checksum = <<56, 49, 54, 48>>

\* C7: an input whose sanitized form is longer than 256 - 5 - len(checksum)
\* gives an output of exactly 256 bytes: "ros2_", the first
\* 256 - 5 - len(checksum) bytes of the sanitized form, and the whole checksum
\* of the whole input; any other input gives "ros2_", its whole sanitized
\* form and the checksum.
C7_TruncationKeepsEnds ==
    spc = "done" =>
        LET full == SanitizedForm(input)
            room == 256 - 5 - Len(checksum)
        IN  /\ idx = Len(input)
            /\ IF Len(full) > room
               THEN /\ Len(output) = 256
                    /\ SubSeq(output, 1, 5) = Ros2Prefix
                    /\ SubSeq(output, 6, 5 + room) = SubSeq(full, 1, room)
                    /\ SubSeq(output, 6 + room, 256) = checksum
               ELSE output = Ros2Prefix \o full \o checksum

\* A truncated input whose dropped bytes differ from the kept ones, under a
\* ten-digit checksum.
C7_Witness ==
    /\ spc = "done" /\ Len(checksum) = 10 /\ Len(input) = 242
    /\ Len(sanitized) = 241 /\ input[242] # input[1]

\* C9: after every step of the checksum loop the accumulator is in
\* 0..1000000006 and no sum * 31 + b exceeded 2^64 - 1; the checksum has 1 to
\* 10 digits, and the budget 256 - 5 - len(checksum) is in 241..250 without
\* having wrapped.
C9_NoOverflowNoUnderflow ==
    /\ IsSmall(sum) /\ SmallValue(sum) <= 1000000006
    /\ ~wrapped
    /\ spc \in {"truncate", "done"} => Len(checksum) \in 1..10
    /\ spc = "done" => ~max_sanitized_length.neg /\ max_sanitized_length.v \in 241..250

\* The largest accumulator, 1000000006, and so the smallest budget.
C9_Witness ==
    /\ spc = "done" /\ sum = <<51718, 15258, 0, 0>>
    /\ Len(checksum) = 10 /\ max_sanitized_length.v = 241

\* C2: resolve_endpoint_name lets no exception out and returns a string; it
\* returns default_value whenever ENDPOINTS is unset, is no JSON, or holds no
\* endpoints array with a qualifying element.
C2_TotalWithFallback ==
    rpc = "done" =>
        /\ ~res.propagated
        /\ res.line \in {73, 82, 92}
        /\ IsByteString(res.value)
        /\ ~Resolvable => res.value = default_value

\* ENDPOINTS holds text that is no JSON document.
C2_Witness ==
    /\ rpc = "done" /\ env_value = EnvMalformed
    /\ res.value = default_value /\ res.line = 92

C4_EarlierNameAlwaysWins ==
    (rpc = "done" /\ HasEndpointsArray /\ Cardinality(NamedIndexes) >= 2) =>
        (res.line = 82 => res.index = Lowest(NamedIndexes))

\* C4 amended: when two entries carry the searched name, the earlier entry's
\* endpoint_key is used if it is a string; if it is missing or no string, the
\* first later entry of that name with a string endpoint_key is used, and the
\* default when there is none.
C4_FirstStringKeyWins ==
    (rpc = "done" /\ HasEndpointsArray /\ Cardinality(NamedIndexes) >= 2) =>
        LET first == Lowest(NamedIndexes)
            later == {i \in NamedIndexes : i > first /\ HasStringKey(EndpointsArray[i])}
        IN  IF HasStringKey(EndpointsArray[first])
            THEN res.index = first /\ input = EndpointsArray[first].o.endpoint_key.s
            ELSE IF later # {}
            THEN res.index = Lowest(later)
                 /\ input = EndpointsArray[Lowest(later)].o.endpoint_key.s
            ELSE res.index = 0 /\ res.value = default_value

\* The earlier entry's endpoint_key is a number and the later entry's key is
\* returned.
C4_Witness ==
    /\ rpc = "done" /\ HasEndpointsArray /\ Cardinality(NamedIndexes) >= 2
    /\ ~HasStringKey(EndpointsArray[Lowest(NamedIndexes)])
    /\ res.line = 82 /\ res.index > Lowest(NamedIndexes)

\* C8: a call that returns default_value has written exactly one diagnostic,
\* a call that returns a sanitized key has written none, every call that
\* cannot succeed has written one, and with ENDPOINTS unset json::parse is
\* not called.
C8_OneDiagnosticOnFallback ==
    rpc = "done" =>
        /\ res.line \in {73, 92} => Len(res.diags) = 1
        /\ res.line = 82 => res.diags = <<>>
        /\ ~Resolvable => Len(res.diags) = 1
        /\ ~env_value.set => ~res.parsed /\ res.diags = <<"unset">>
        /\ (env_value.set /\ ~env_value.wf) => res.diags = <<"parse_error">>

\* A well-formed document with an endpoints array in which nothing matches.
C8_Witness ==
    /\ rpc = "done" /\ HasEndpointsArray /\ Len(EndpointsArray) > 0
    /\ NamedIndexes # {} /\ QualifyingIndexes = {}
    /\ res.diags = <<"not_found">> /\ res.parsed

\* C10 as stated: once rclcpp::ok() has become false while main was in the
\* wait loop, no request is ever sent.
C10_StoppedWhileWaitingNeverSends == stoppedWhileWaiting => request = <<>>

\* C10 amended: the request (41, 1) is sent only after wait_for_service
\* returned true; when the check after a wait_for_service call that returned
\* false finds rclcpp::ok() false, main exits with status 1 and no request was
\* sent; main exits with status 0 only after a request was sent and its
\* response received with SUCCESS; a failed call leaves no pending request and
\* exits with status 1.
C10_RequestOnlyWhenAvailable ==
    /\ [](request # <<>> => (available /\ request = <<[a |-> 41, b |-> 1]>>))
    /\ [][(mpc = "check" /\ ~ok /\ mpc' # mpc) =>
            (mpc' = "exit" /\ exit_status' = 1 /\ request' = <<>>)]_vars
    /\ []((mpc = "exit" /\ spin_result = "none") =>
            (exit_status = 1 /\ request = <<>> /\ ~ok /\ ~available))
    /\ []((mpc = "exit" /\ exit_status = 0) =>
            (request # <<>> /\ response # <<>> /\ spin_result = "SUCCESS"))
    /\ []((mpc = "exit" /\ spin_result \notin {"none", "SUCCESS"}) =>
            (exit_status = 1 /\ ~pending /\ request # <<>>))
    /\ [](mpc = "exit" <=> exit_status \in {0, 1})

\* Shut down while waiting for a service that never appeared: exit status 1,
\* nothing sent.
C10_Witness ==
    /\ mpc = "exit" /\ exit_status = 1 /\ stoppedWhileWaiting
    /\ request = <<>> /\ waits > 0

====
